---- MODULE Spec2Model ----
(***************************************************************************)
(* task-flow: Task (step discovery, sequential step runner, persistence)   *)
(* and TaskManager (registry, ThreadPoolExecutor dispatch, shutdown).      *)
(*                                                                         *)
(* Texts (identities, file names) are sequences of string tokens, "." is a *)
(* token of its own, so that f-strings are concatenations (\o) and         *)
(* split(".") / removesuffix(".json") / startswith are computed.           *)
(* Optional values (None or a value) are <<>> or <<v>>.                    *)
(* Timestamps are ticks of a logical clock; datetime.now() reads a value   *)
(* not below the previous reading.                                         *)
(***************************************************************************)
EXTENDS Integers, Sequences, FiniteSets, TLC

\* ---------------------------------------------------------------- bounds
MaxSteps == 3      \* number of step names a task class may declare
MaxTasks == 2      \* number of add_task calls of a caller of the pool
MaxThreads == 2    \* largest max_threads a manager is constructed with
MaxClock == 1      \* largest reading of the clock
MaxLoads == 1      \* number of load_from_disk calls of a caller
MaxLogLines == 1   \* number of lines the logger writes to a log file
MaxExecutes == 2   \* number of times execute() is called on a task

\* ------------------------------------------------------------- constants
None == <<>>
Some(v) == <<v>>

PENDING == "PENDING"
RUNNING == "RUNNING"
SUCCESS == "SUCCESS"
ERROR == "ERROR"
STATUS == {PENDING, RUNNING, SUCCESS, ERROR}

\* save_result's default directory, and the directories a manager may be
\* configured with
DefaultResultPath == <<"results/">>
ResultDirs == {<<"results/">>, <<"out/">>}

\* attribute names in the order dir() lists them (sorted)
AllStepNames == <<"step1", "step2", "step3", "step4">>
SortedStepNames == SubSeq(AllStepNames, 1, MaxSteps)
StepNames == {SortedStepNames[j] : j \in 1..MaxSteps}

RECURSIVE InjSeqs(_, _)
\* the sequences without repetition of at most n elements of S
InjSeqs(S, n) ==
    IF n = 0 THEN {<<>>}
    ELSE {<<>>} \cup UNION {{<<x>> \o s : s \in InjSeqs(S \ {x}, n - 1)} : x \in S}

\* a task class: its name and the step methods of its body in declaration
\* order (the base class Task declares none)
TaskClasses ==
    {[name |-> IF b = <<>> THEN "Task" ELSE "CustomTask", body |-> b] :
        b \in InjSeqs(StepNames, MaxSteps)}

\* the classes of the workloads that exercise the pool: the base class and
\* a class of one step
PoolClasses == {c \in TaskClasses : c.body \in {<<>>, <<"step1">>}}

RECURSIVE SeqsUpTo(_, _)
\* the sequences of at most n elements of S
SeqsUpTo(S, n) ==
    IF n = 0 THEN {<<>>}
    ELSE LET R == SeqsUpTo(S, n - 1) IN
         R \cup {Append(s, x) : s \in R, x \in S}

\* what a step body may return, and the failures it may raise
EmptyDict == [type |-> "dict", val |-> 0]
Payloads == {[type |-> "dict", val |-> 1], [type |-> "tuple", val |-> 1]}
StepErrors == {[type |-> "ValueError", msg |-> "Test error"]}
NoSteps == [type |-> "ValueError", msg |-> "No steps to execute"]
NotExecutable == [type |-> "ValueError", msg |-> "Task is not executable"]
NoExc == [type |-> "None", msg |-> ""]

\* str(e)
Str(e) == e.msg

VARIABLES
    max_threads,   \* TaskManager: size of the pool
    path_result,   \* TaskManager.path_result
    tasks,         \* TaskManager.tasks: key -> index of a Task in heap
    heap,          \* the Task objects constructed so far
    executor,      \* ThreadPoolExecutor: shutdown flag and work queue
    future,        \* the Future of each submitted Task (by heap index)
    frame,         \* per thread: where it is (pc), on which Task, with which
                   \* step index k and pending exception exc
    ret,           \* outcome of the caller's last completed call
    disk,          \* directory -> file name -> content
    clock,         \* last reading of datetime.now()
    invoked,       \* per Task: the step bodies called, with their outcome
    save_log,      \* per Task: the records written by save_result
    accepted,      \* heap indices of the tasks add_task returned an id for
    todo           \* what the caller is still to do: the task classes to
                   \* pass to add_task, the number of load_from_disk calls

vars == <<max_threads, path_result, tasks, heap, executor, future, frame,
          ret, disk, clock, invoked, save_log, accepted, todo>>

\* the caller's thread is 0, the pool's threads are 1..max_threads
Main == 0
\* variant of WorkerIds for a pool that starts one thread too many
WorkerIds_OneMore == 1..(max_threads + 1)
WorkerIds == 1..max_threads
Threads == {Main} \cup WorkerIds

Idle == [pc |-> "idle", task |-> 0, k |-> 0, exc |-> NoExc]

\* ------------------------------------------------------------ TaskResult
StepResult == [message |-> "", status |-> PENDING, data |-> EmptyDict]

\* a dict keyed by step name, in insertion order
DictKeys(d) == [j \in 1..Len(d) |-> d[j].step]
DictIndex(d, name) == CHOOSE j \in 1..Len(d) : d[j].step = name

\* variant of exit_code that is 1 as soon as one step is ERROR
exit_code_Any(result) ==
    IF Len(result.data) = 0 THEN 1
    ELSE IF \E j \in 1..Len(result.data) : result.data[j].res.status = ERROR
         THEN 1 ELSE 0
exit_code(result) ==
    IF Len(result.data) = 0 THEN 1
    ELSE IF \A j \in 1..Len(result.data) : result.data[j].res.status = ERROR
         THEN 1 ELSE 0

duration(result) ==
    IF result.start_at # None /\ result.end_at # None
    THEN Some(result.end_at[1] - result.start_at[1])
    ELSE None

to_dict(result) ==
    [task_type |-> result.task_type,
     status |-> result.status,
     exit_code |-> exit_code(result),
     exit_message |-> result.exit_message,
     data |-> result.data,
     created_at |-> result.created_at,
     start_at |-> result.start_at,
     end_at |-> result.end_at,
     duration |-> duration(result),
     artifacts |-> result.artifacts]

\* ------------------------------------------------------------------ Task
\* [method for method in dir(self) if ... hasattr(.., "is_step")]
DiscoverSteps(cls) ==
    SelectSeq(SortedStepNames,
              LAMBDA n : \E j \in 1..Len(cls.body) : cls.body[j] = n)

\* Task.__init__ of class cls, with uuid u, at time now
NewTask(cls, u, now) ==
    LET steps == DiscoverSteps(cls) IN
    [task_id |-> <<"task-", ToString(u)>>,
     is_executable |-> TRUE,
     cls |-> cls,
     steps |-> steps,
     result |-> [task_type |-> cls.name,
                 status |-> PENDING,
                 exit_message |-> None,
                 data |-> [j \in 1..Len(steps) |->
                              [step |-> steps[j], res |-> StepResult]],
                 created_at |-> Some(now),
                 start_at |-> None,
                 end_at |-> None,
                 artifacts |-> <<>>]]

\* datetime.now(): the readings t the clock may give next
Now == {t \in clock..(clock + 1) : t <= MaxClock}

\* os.path.join(path, f"{task_id}.json")
ResultFile(task_id) == task_id \o <<".", "json">>

\* the JSON value json.dump writes for a payload: a tuple becomes an array
JsonPayload(p) == IF p.type = "tuple" THEN [p EXCEPT !.type = "list"] ELSE p

\* json.dump(obj, file) of a result record: the content of the file
JsonDump(obj) ==
    [json |-> Some([obj EXCEPT !.data =
                 [j \in 1..Len(obj.data) |->
                     [obj.data[j] EXCEPT !.res.data = JsonPayload(@)]]])]

\* the file system after open(dir/name, "w") has been written with content,
\* the directory being created when absent (os.makedirs(.., exist_ok=True))
WriteFile(d, dir, name, content) ==
    LET old == IF dir \in DOMAIN d THEN d[dir] ELSE <<>>
        new == [n \in (DOMAIN old) \cup {name} |->
                   IF n = name THEN content ELSE old[n]]
    IN [x \in (DOMAIN d) \cup {dir} |-> IF x = dir THEN new ELSE d[x]]

\* a manager after TaskManager(max_threads, path_result=..), the file system
\* being d
ConstructedOver(d) ==
    /\ max_threads \in 1..MaxThreads
    /\ path_result \in ResultDirs
    /\ tasks = <<>>
    /\ heap = <<>>
    /\ executor = [shutdown |-> FALSE, queue |-> <<>>]
    /\ future = <<>>
    /\ frame = [th \in Threads |-> Idle]
    /\ ret = [op |-> "init", ok |-> TRUE, value |-> <<>>]
    /\ disk = d
    /\ invoked = <<>>
    /\ save_log = <<>>
    /\ accepted = {}

\* a manager constructed where no directory exists yet
Constructed == ConstructedOver(<<>>)

\* a caller that dispatches up to MaxTasks tasks to the pool, at a time when
\* the clock reads MaxClock
Init ==
    /\ Constructed
    /\ clock = MaxClock
    /\ todo \in [add : SeqsUpTo(PoolClasses, MaxTasks), load : {MaxLoads}]

\* a caller that dispatches one task, of any class, from time 0 on, to a
\* pool of one thread
InitTask ==
    /\ Constructed
    /\ max_threads = 1
    /\ clock = 0
    /\ todo \in [add : {<<c>> : c \in TaskClasses}, load : {MaxLoads}]

\* result files left in the result directory by earlier runs: a well-formed
\* record, a file that is not JSON, a JSON object without "status", and a
\* record whose status is not a STATUS
OldRecord ==
    [task_type |-> "CustomTask",
     status |-> SUCCESS,
     exit_code |-> 0,
     exit_message |-> None,
     data |-> <<[step |-> "step1",
                 res |-> [message |-> "", status |-> SUCCESS,
                          data |-> [type |-> "dict", val |-> 1]]]>>,
     created_at |-> Some(0),
     start_at |-> Some(0),
     end_at |-> Some(0),
     duration |-> Some(0),
     artifacts |-> <<>>]
SeedFiles ==
    {[name |-> <<"task-", "old", ".", "json">>,
      content |-> [json |-> Some(OldRecord)]],
     [name |-> <<"notes", ".", "txt">>,
      content |-> [json |-> None]],
     [name |-> <<"task-", "cut", ".", "json">>,
      content |-> [json |-> Some([task_type |-> "CustomTask"])]],
     [name |-> <<"task-", "odd", ".", "json">>,
      content |-> [json |-> Some([OldRecord EXCEPT !.status = "DONE"])]]}

\* the directory that holds the files S
Directory(S) ==
    [n \in {f.name : f \in S} |-> (CHOOSE f \in S : f.name = n).content]

\* a manager constructed over a result directory that earlier runs left
\* files in, and a caller that dispatches at most one task
InitDisk ==
    /\ \E S \in SUBSET SeedFiles :
           ConstructedOver([dir \in {path_result} |-> Directory(S)])
    /\ clock = MaxClock
    /\ todo \in [add : SeqsUpTo(PoolClasses, 1), load : {MaxLoads}]

\* result files whose names hold a dot before the ".json" suffix, next to
\* one that save_result could have written
NamedFiles ==
    {[name |-> <<"task-", "old", ".", "json">>,
      content |-> [json |-> Some(OldRecord)]],
     [name |-> <<"task-", "old", ".", "v1", ".", "json">>,
      content |-> [json |-> Some(OldRecord)]],
     [name |-> <<"task-", "old", ".", "v2", ".", "json">>,
      content |-> [json |-> Some([OldRecord EXCEPT !.status = ERROR])]]}

\* a manager constructed over a result directory that holds such files,
\* and a caller that dispatches at most one task
InitNames ==
    /\ \E S \in SUBSET NamedFiles :
           ConstructedOver([dir \in {path_result} |-> Directory(S)])
    /\ clock = MaxClock
    /\ todo \in [add : SeqsUpTo(PoolClasses, 1), load : {MaxLoads}]

\* ----------------------------------------------------------- TaskManager
\* the dict d with d[key] = v
DictSet(d, key, v) ==
    [x \in (DOMAIN d) \cup {key} |-> IF x = key THEN v ELSE d[x]]

\* variant of AddTask that leaves the registry as it is
AddTask_NoRegister ==
    /\ frame[Main].pc = "idle"
    /\ todo.add # <<>>
    /\ todo' = [todo EXCEPT !.add = Tail(@)]
    /\ \E now \in Now :
          LET i == Len(heap) + 1
              task == NewTask(Head(todo.add), i, now)
          IN /\ heap' = Append(heap, task)
             /\ clock' = now
             /\ invoked' = Append(invoked, <<>>)
             /\ save_log' = Append(save_log, <<>>)
             /\ frame' = [frame EXCEPT ![Main] =
                             [pc |-> "start_task", task |-> i, k |-> 0,
                              exc |-> NoExc]]
    /\ UNCHANGED <<max_threads, path_result, tasks, executor, future, ret,
                   disk, accepted>>

\* add_task, up to the call of _start_task: construct the task and put it
\* in the registry
AddTask ==
    /\ frame[Main].pc = "idle"
    /\ todo.add # <<>>
    /\ todo' = [todo EXCEPT !.add = Tail(@)]
    /\ \E now \in Now :
          LET i == Len(heap) + 1
              task == NewTask(Head(todo.add), i, now)
          IN /\ heap' = Append(heap, task)
             /\ clock' = now
             /\ tasks' = DictSet(tasks, task.task_id, i)
             /\ invoked' = Append(invoked, <<>>)
             /\ save_log' = Append(save_log, <<>>)
             /\ frame' = [frame EXCEPT ![Main] =
                             [pc |-> "start_task", task |-> i, k |-> 0,
                              exc |-> NoExc]]
    /\ UNCHANGED <<max_threads, path_result, executor, future, ret, disk,
                   accepted>>

\* _start_task and the return of add_task: executor.submit(task.execute)
\* refuses new work once shutdown has begun
StartTask ==
    /\ frame[Main].pc = "start_task"
    /\ LET task_id == heap[frame[Main].task].task_id IN
       IF task_id \notin DOMAIN tasks
       THEN /\ ret' = [op |-> "add_task", ok |-> FALSE,
                       value |-> <<"ValueError">>]
            /\ UNCHANGED <<executor, future, accepted>>
       ELSE LET t == tasks[task_id] IN
            IF executor.shutdown
            THEN /\ ret' = [op |-> "add_task", ok |-> FALSE,
                            value |-> <<"RuntimeError">>]
                 /\ UNCHANGED <<executor, future, accepted>>
            ELSE /\ executor' = [executor EXCEPT !.queue = Append(@, t)]
                 /\ future' = DictSet(future, t,
                                 [state |-> PENDING, exception |-> None,
                                  result |-> None])
                 /\ accepted' = accepted \cup {frame[Main].task}
                 /\ ret' = [op |-> "add_task", ok |-> TRUE,
                            value |-> task_id]
    /\ frame' = [frame EXCEPT ![Main] = Idle]
    /\ UNCHANGED <<max_threads, path_result, tasks, heap, disk, clock,
                   invoked, save_log, todo>>

\* file.split(".")[0]
SplitFirst(name) ==
    LET dots == {j \in 1..Len(name) : name[j] = "."} IN
    IF dots = {} THEN name
    ELSE SubSeq(name, 1, (CHOOSE j \in dots : \A x \in dots : j <= x) - 1)

\* variant of RemoveSuffixJson that keeps the suffix
RemoveSuffixJson_Keep(name) == name
\* os.path.basename(file_path).removesuffix(".json")
RemoveSuffixJson(name) ==
    IF Len(name) >= 2 /\ SubSeq(name, Len(name) - 1, Len(name)) = <<".", "json">>
    THEN SubSeq(name, 1, Len(name) - 2)
    ELSE name

BaseTask == [name |-> "Task", body |-> <<>>]
RequiredKeys == {"task_type", "status", "exit_message", "created_at",
                 "start_at", "end_at", "data"}
StepResultKeys == {"message", "status", "data"}

\* StepResult(**d): absent fields take their defaults
StepResultFrom(d) ==
    [message |-> IF "message" \in DOMAIN d THEN d.message ELSE StepResult.message,
     status |-> IF "status" \in DOMAIN d THEN d.status ELSE StepResult.status,
     data |-> IF "data" \in DOMAIN d THEN d.data ELSE StepResult.data]

\* variant of load_from_file that returns a task that can be executed
load_from_file_Executable(name, content) ==
    LET Raise(e) == [exc |-> Some(e), task |-> <<>>] IN
    IF content.json = None THEN Raise("JSONDecodeError")
    ELSE LET data == content.json[1] IN
         IF ~(RequiredKeys \subseteq DOMAIN data) THEN Raise("KeyError")
         ELSE IF data.status \notin STATUS THEN Raise("ValueError")
         ELSE IF \E j \in 1..Len(data.data) :
                    ~(DOMAIN data.data[j].res \subseteq StepResultKeys)
              THEN Raise("TypeError")
         ELSE IF \E j \in 1..Len(data.data) :
                    StepResultFrom(data.data[j].res).status \notin STATUS
              THEN Raise("ValueError")
         ELSE [exc |-> None,
               task |->
                 [task_id |-> RemoveSuffixJson(name),
                  is_executable |-> TRUE,
                  cls |-> BaseTask,
                  steps |-> DiscoverSteps(BaseTask),
                  result |->
                    [task_type |-> data.task_type,
                     status |-> data.status,
                     exit_message |-> data.exit_message,
                     data |-> [j \in 1..Len(data.data) |->
                                  [step |-> data.data[j].step,
                                   res |-> StepResultFrom(data.data[j].res)]],
                     created_at |-> data.created_at,
                     start_at |-> data.start_at,
                     end_at |-> data.end_at,
                     artifacts |-> IF "artifacts" \in DOMAIN data
                                   THEN data.artifacts ELSE <<>>]]]
\* Task.load_from_file on the file called name with the given content: the
\* exception it raises, or the Task it returns
load_from_file(name, content) ==
    LET Raise(e) == [exc |-> Some(e), task |-> <<>>] IN
    IF content.json = None THEN Raise("JSONDecodeError")
    ELSE LET data == content.json[1] IN
         IF ~(RequiredKeys \subseteq DOMAIN data) THEN Raise("KeyError")
         ELSE IF data.status \notin STATUS THEN Raise("ValueError")
         ELSE IF \E j \in 1..Len(data.data) :
                    ~(DOMAIN data.data[j].res \subseteq StepResultKeys)
              THEN Raise("TypeError")
         ELSE IF \E j \in 1..Len(data.data) :
                    StepResultFrom(data.data[j].res).status \notin STATUS
              THEN Raise("ValueError")
         ELSE [exc |-> None,
               task |->
                 [task_id |-> RemoveSuffixJson(name),
                  is_executable |-> FALSE,
                  cls |-> BaseTask,
                  steps |-> DiscoverSteps(BaseTask),
                  result |->
                    [task_type |-> data.task_type,
                     status |-> data.status,
                     exit_message |-> data.exit_message,
                     data |-> [j \in 1..Len(data.data) |->
                                  [step |-> data.data[j].step,
                                   res |-> StepResultFrom(data.data[j].res)]],
                     created_at |-> data.created_at,
                     start_at |-> data.start_at,
                     end_at |-> data.end_at,
                     artifacts |-> IF "artifacts" \in DOMAIN data
                                   THEN data.artifacts ELSE <<>>]]]

RECURSIVE Scan(_, _, _, _)
\* the loop of load_from_disk over the listing order of directory dir, from
\* its j-th entry on: a JSONDecodeError is logged and the entry skipped, any
\* other exception leaves the loop
Scan(dir, order, j, st) ==
    IF j > Len(order) THEN st
    ELSE LET l == load_from_file(order[j], dir[order[j]]) IN
         IF l.exc = Some("JSONDecodeError") THEN Scan(dir, order, j + 1, st)
         ELSE IF l.exc # None
              THEN [st EXCEPT !.exc = l.exc, !.constructed = TRUE]
         ELSE Scan(dir, order, j + 1,
                   [tasks |-> DictSet(st.tasks, SplitFirst(order[j]),
                                      Len(st.heap) + 1),
                    heap |-> Append(st.heap, l.task),
                    exc |-> None,
                    constructed |-> TRUE])

\* os.listdir gives the entries of a directory in an arbitrary order
Listings(dir) == {s \in InjSeqs(DOMAIN dir, Cardinality(DOMAIN dir)) :
                     Len(s) = Cardinality(DOMAIN dir)}

LoadFromDisk ==
    /\ frame[Main].pc = "idle"
    /\ todo.load > 0
    /\ todo' = [todo EXCEPT !.load = @ - 1]
    /\ IF path_result \notin DOMAIN disk
       THEN /\ ret' = [op |-> "load_from_disk", ok |-> FALSE,
                       value |-> <<"FileNotFoundError">>]
            /\ UNCHANGED <<tasks, heap, invoked, save_log, clock>>
       ELSE \E order \in Listings(disk[path_result]), now \in Now :
              LET st == Scan(disk[path_result], order, 1,
                             [tasks |-> tasks, heap |-> heap, exc |-> None,
                              constructed |-> FALSE])
                  fresh == [j \in 1..(Len(st.heap) - Len(heap)) |-> <<>>]
              IN /\ tasks' = st.tasks
                 /\ heap' = st.heap
                 /\ invoked' = invoked \o fresh
                 /\ save_log' = save_log \o fresh
                 /\ clock' = IF st.constructed THEN now ELSE clock
                 /\ ret' = [op |-> "load_from_disk", ok |-> st.exc = None,
                            value |-> st.exc]
    /\ UNCHANGED <<max_threads, path_result, executor, future, frame, disk,
                   accepted>>

\* the caller calls execute() itself on a task of the registry that was
\* rebuilt from a result file
ExecuteCall ==
    /\ frame[Main].pc = "idle"
    /\ \E key \in DOMAIN tasks :
          /\ ~heap[tasks[key]].is_executable
          /\ frame' = [frame EXCEPT ![Main] =
                          [pc |-> "execute", task |-> tasks[key], k |-> 0,
                           exc |-> NoExc]]
    /\ UNCHANGED <<max_threads, path_result, tasks, heap, executor, future,
                   ret, disk, clock, invoked, save_log, accepted, todo>>

\* variant of WorkerTake that leaves the work item in the queue
WorkerTake_NoPop(w) ==
    /\ w \in WorkerIds
    /\ frame[w].pc = "idle"
    /\ \A v \in WorkerIds : frame[v].pc = "idle" => w <= v
    /\ executor.queue # <<>>
    /\ LET t == Head(executor.queue) IN
       /\ future' = [future EXCEPT ![t].state = RUNNING]
       /\ frame' = [frame EXCEPT ![w] =
                       [pc |-> "execute", task |-> t, k |-> 0, exc |-> NoExc]]
    /\ UNCHANGED <<max_threads, path_result, tasks, heap, executor, ret,
                   disk, clock, invoked, save_log, accepted, todo>>
\* variant of WorkerTake for a pool that stops taking work once a task
\* has ended in ERROR
WorkerTake_UntilFailure(w) ==
    /\ w \in WorkerIds
    /\ frame[w].pc = "idle"
    /\ \A v \in WorkerIds : frame[v].pc = "idle" => w <= v
    /\ executor.queue # <<>>
    /\ \A u \in DOMAIN future : heap[u].result.status # ERROR
    /\ LET t == Head(executor.queue) IN
       /\ executor' = [executor EXCEPT !.queue = Tail(@)]
       /\ future' = [future EXCEPT ![t].state = RUNNING]
       /\ frame' = [frame EXCEPT ![w] =
                       [pc |-> "execute", task |-> t, k |-> 0, exc |-> NoExc]]
    /\ UNCHANGED <<max_threads, path_result, tasks, heap, ret, disk, clock,
                   invoked, save_log, accepted, todo>>
\* a thread of the pool takes the next work item and calls task.execute
\* (the idle threads are interchangeable: the one of least index takes it)
WorkerTake(w) ==
    /\ w \in WorkerIds
    /\ frame[w].pc = "idle"
    /\ \A v \in WorkerIds : frame[v].pc = "idle" => w <= v
    /\ executor.queue # <<>>
    /\ LET t == Head(executor.queue) IN
       /\ executor' = [executor EXCEPT !.queue = Tail(@)]
       /\ future' = [future EXCEPT ![t].state = RUNNING]
       /\ frame' = [frame EXCEPT ![w] =
                       [pc |-> "execute", task |-> t, k |-> 0, exc |-> NoExc]]
    /\ UNCHANGED <<max_threads, path_result, tasks, heap, ret, disk, clock,
                   invoked, save_log, accepted, todo>>

\* shutdown: executor.shutdown(wait=True) sets the flag ...
ShutdownBegin ==
    /\ frame[Main].pc = "idle"
    /\ executor' = [executor EXCEPT !.shutdown = TRUE]
    /\ frame' = [frame EXCEPT ![Main] =
                    [pc |-> "shutdown_wait", task |-> 0, k |-> 0,
                     exc |-> NoExc]]
    /\ UNCHANGED <<max_threads, path_result, tasks, heap, future, ret, disk,
                   clock, invoked, save_log, accepted, todo>>

\* variant of PoolDrained for a shutdown that does not wait
PoolDrained_NoWait == TRUE

\* ... and joins the pool's threads, which leave once the queue is empty
PoolDrained ==
    /\ executor.queue = <<>>
    /\ \A w \in WorkerIds : frame[w].pc = "idle"

ShutdownReturn ==
    /\ frame[Main].pc = "shutdown_wait"
    /\ PoolDrained
    /\ frame' = [frame EXCEPT ![Main] = Idle]
    /\ ret' = [op |-> "shutdown", ok |-> TRUE, value |-> <<>>]
    /\ UNCHANGED <<max_threads, path_result, tasks, heap, executor, future,
                   disk, clock, invoked, save_log, accepted, todo>>

\* ---------------------------------------------------------- Task.execute
\* execute leaves thread th with exception exc or with return value result:
\* on a pool thread the outcome goes to the Future, on the caller's thread
\* to the caller
Finish(th, exc, result) ==
    /\ frame' = [frame EXCEPT ![th] = Idle]
    /\ IF th = Main
       THEN /\ ret' = [op |-> "execute", ok |-> exc = None,
                       value |-> IF exc = None THEN result ELSE exc]
            /\ UNCHANGED future
       ELSE /\ future' = [future EXCEPT ![frame[th].task] =
                             [state |-> "FINISHED", exception |-> exc,
                              result |-> result]]
            /\ UNCHANGED ret

Goto(th, pc) == frame' = [frame EXCEPT ![th].pc = pc]

\* variant of ExecuteBegin without the check of is_executable
ExecuteBegin_NoCheck(th) ==
    /\ frame[th].pc = "execute"
    /\ heap' = [heap EXCEPT ![frame[th].task].result.status = RUNNING]
    /\ Goto(th, "start_at")
    /\ UNCHANGED <<max_threads, path_result, tasks, executor, future, ret,
                   disk, clock, invoked, save_log, accepted, todo>>

\* if not self.is_executable: raise; self.result.status = STATUS.RUNNING
ExecuteBegin(th) ==
    /\ frame[th].pc = "execute"
    /\ LET t == frame[th].task IN
       IF ~heap[t].is_executable
       THEN /\ Finish(th, Some(NotExecutable), None)
            /\ UNCHANGED heap
       ELSE /\ heap' = [heap EXCEPT ![t].result.status = RUNNING]
            /\ Goto(th, "start_at")
            /\ UNCHANGED <<future, ret>>
    /\ UNCHANGED <<max_threads, path_result, tasks, executor, disk, clock,
                   invoked, save_log, accepted, todo>>

\* variant of SetStartAt without the check for an empty step list
SetStartAt_NoCheck(th) ==
    /\ frame[th].pc = "start_at"
    /\ LET t == frame[th].task IN
       \E now \in Now :
          /\ heap' = [heap EXCEPT ![t].result.start_at = Some(now)]
          /\ clock' = now
          /\ frame' = [frame EXCEPT ![th] =
                IF heap[t].steps = <<>>
                THEN [@ EXCEPT !.pc = "task_success"]
                ELSE [@ EXCEPT !.pc = "step_running", !.k = 1]]
    /\ UNCHANGED <<max_threads, path_result, tasks, executor, future, ret,
                   disk, invoked, save_log, accepted, todo>>

\* self.result.start_at = now; then "if not self.steps: raise" or the loop
SetStartAt(th) ==
    /\ frame[th].pc = "start_at"
    /\ LET t == frame[th].task IN
       \E now \in Now :
          /\ heap' = [heap EXCEPT ![t].result.start_at = Some(now)]
          /\ clock' = now
          /\ frame' = [frame EXCEPT ![th] =
                IF heap[t].steps = <<>>
                THEN [@ EXCEPT !.pc = "exit_message", !.exc = NoSteps]
                ELSE [@ EXCEPT !.pc = "step_running", !.k = 1]]
    /\ UNCHANGED <<max_threads, path_result, tasks, executor, future, ret,
                   disk, invoked, save_log, accepted, todo>>

\* the entry of result.data that _execute_step(step_name, ..) works on
StepEntry(th) ==
    LET t == frame[th].task IN
    DictIndex(heap[t].result.data, heap[t].steps[frame[th].k])

\* variant of StepRunning that marks the step and the one after it RUNNING
StepRunning_Ahead(th) ==
    /\ frame[th].pc = "step_running"
    /\ heap' = [heap EXCEPT
                   ![frame[th].task].result.data =
                       [j \in 1..Len(@) |->
                           IF j \in {StepEntry(th), StepEntry(th) + 1}
                           THEN [@[j] EXCEPT !.res.status = RUNNING]
                           ELSE @[j]]]
    /\ Goto(th, "step_call")
    /\ UNCHANGED <<max_threads, path_result, tasks, executor, future, ret,
                   disk, clock, invoked, save_log, accepted, todo>>
\* _execute_step: self.result.data[step_name].status = STATUS.RUNNING
StepRunning(th) ==
    /\ frame[th].pc = "step_running"
    /\ heap' = [heap EXCEPT
                   ![frame[th].task].result.data[StepEntry(th)].res.status =
                       RUNNING]
    /\ Goto(th, "step_call")
    /\ UNCHANGED <<max_threads, path_result, tasks, executor, future, ret,
                   disk, clock, invoked, save_log, accepted, todo>>

\* _execute_step: result = step_func(), and on a normal return
\* self.result.data[step_name].data = result
StepCall(th) ==
    /\ frame[th].pc = "step_call"
    /\ LET t == frame[th].task
           name == heap[t].steps[frame[th].k]
       IN \/ \E p \in Payloads :
               /\ heap' = [heap EXCEPT
                              ![t].result.data[StepEntry(th)].res.data = p]
               /\ invoked' = [invoked EXCEPT ![t] =
                     Append(@, [step |-> name, raised |-> FALSE,
                                payload |-> p, exc |-> NoExc])]
               /\ Goto(th, "step_success")
          \/ \E e \in StepErrors :
               /\ invoked' = [invoked EXCEPT ![t] =
                     Append(@, [step |-> name, raised |-> TRUE,
                                payload |-> EmptyDict, exc |-> e])]
               /\ frame' = [frame EXCEPT ![th].pc = "step_error",
                                         ![th].exc = e]
               /\ UNCHANGED heap
    /\ UNCHANGED <<max_threads, path_result, tasks, executor, future, ret,
                   disk, clock, save_log, accepted, todo>>

\* variant of StepSuccess that leaves the status of the step as it is
StepSuccess_NoStatus(th) ==
    /\ frame[th].pc = "step_success"
    /\ LET t == frame[th].task IN
       /\ frame' = [frame EXCEPT ![th] =
             IF frame[th].k < Len(heap[t].steps)
             THEN [@ EXCEPT !.pc = "step_running", !.k = @ + 1]
             ELSE [@ EXCEPT !.pc = "task_success"]]
    /\ UNCHANGED <<max_threads, path_result, tasks, heap, executor, future,
                   ret, disk, clock, invoked, save_log, accepted, todo>>

\* _execute_step: status = STATUS.SUCCESS; then the next step of the loop,
\* or the else branch of execute's try
StepSuccess(th) ==
    /\ frame[th].pc = "step_success"
    /\ LET t == frame[th].task IN
       /\ heap' = [heap EXCEPT
                      ![t].result.data[StepEntry(th)].res.status = SUCCESS]
       /\ frame' = [frame EXCEPT ![th] =
             IF frame[th].k < Len(heap[t].steps)
             THEN [@ EXCEPT !.pc = "step_running", !.k = @ + 1]
             ELSE [@ EXCEPT !.pc = "task_success"]]
    /\ UNCHANGED <<max_threads, path_result, tasks, executor, future, ret,
                   disk, clock, invoked, save_log, accepted, todo>>

\* variant of StepError that does not re-raise: the loop goes on
StepError_NoRaise(th) ==
    /\ frame[th].pc = "step_error"
    /\ LET t == frame[th].task IN
       /\ heap' = [heap EXCEPT
                      ![t].result.data[DictIndex(heap[t].result.data,
                            heap[t].steps[frame[th].k])].res.status = ERROR]
       /\ frame' = [frame EXCEPT ![th] =
             IF frame[th].k < Len(heap[t].steps)
             THEN [@ EXCEPT !.pc = "step_running", !.k = @ + 1]
             ELSE [@ EXCEPT !.pc = "exit_message"]]
    /\ UNCHANGED <<max_threads, path_result, tasks, executor, future, ret,
                   disk, clock, invoked, save_log, accepted, todo>>

\* variant of StepError that marks the failed step and every step after it
StepError_MarksRest(th) ==
    /\ frame[th].pc = "step_error"
    /\ heap' = [heap EXCEPT
                   ![frame[th].task].result.data =
                       [j \in 1..Len(@) |->
                           IF j >= StepEntry(th)
                           THEN [@[j] EXCEPT !.res.status = ERROR]
                           ELSE @[j]]]
    /\ Goto(th, "exit_message")
    /\ UNCHANGED <<max_threads, path_result, tasks, executor, future, ret,
                   disk, clock, invoked, save_log, accepted, todo>>

\* _execute_step: except Exception: status = STATUS.ERROR; raise e
StepError(th) ==
    /\ frame[th].pc = "step_error"
    /\ heap' = [heap EXCEPT
                   ![frame[th].task].result.data[StepEntry(th)].res.status =
                       ERROR]
    /\ Goto(th, "exit_message")
    /\ UNCHANGED <<max_threads, path_result, tasks, executor, future, ret,
                   disk, clock, invoked, save_log, accepted, todo>>

\* variant of SetExitMessage for an execute() without the except clause:
\* the failure leaves execute()
SetExitMessage_Escapes(th) ==
    /\ frame[th].pc = "exit_message"
    /\ Finish(th, Some(frame[th].exc), None)
    /\ UNCHANGED <<max_threads, path_result, tasks, heap, executor, disk,
                   clock, invoked, save_log, accepted, todo>>

\* variant of SetExitMessage for an except clause that assigns the status
\* where the code assigns the message
SetExitMessage_StatusFirst(th) ==
    /\ frame[th].pc = "exit_message"
    /\ heap' = [heap EXCEPT ![frame[th].task].result.status = ERROR]
    /\ Goto(th, "task_error")
    /\ UNCHANGED <<max_threads, path_result, tasks, executor, future, ret,
                   disk, clock, invoked, save_log, accepted, todo>>

\* execute: except Exception as e: self.result.exit_message = str(e)
SetExitMessage(th) ==
    /\ frame[th].pc = "exit_message"
    /\ heap' = [heap EXCEPT ![frame[th].task].result.exit_message =
                   Some(Str(frame[th].exc))]
    /\ Goto(th, "task_error")
    /\ UNCHANGED <<max_threads, path_result, tasks, executor, future, ret,
                   disk, clock, invoked, save_log, accepted, todo>>

\* variant of SetError that also puts the steps back to PENDING
SetError_Resets(th) ==
    /\ frame[th].pc = "task_error"
    /\ heap' = [heap EXCEPT
                   ![frame[th].task].result.status = ERROR,
                   ![frame[th].task].result.data =
                       [j \in 1..Len(@) |->
                           [@[j] EXCEPT !.res.status = PENDING]]]
    /\ Goto(th, "end_at")
    /\ UNCHANGED <<max_threads, path_result, tasks, executor, future, ret,
                   disk, clock, invoked, save_log, accepted, todo>>
\* execute: self.result.status = STATUS.ERROR
SetError(th) ==
    /\ frame[th].pc = "task_error"
    /\ heap' = [heap EXCEPT ![frame[th].task].result.status = ERROR]
    /\ Goto(th, "end_at")
    /\ UNCHANGED <<max_threads, path_result, tasks, executor, future, ret,
                   disk, clock, invoked, save_log, accepted, todo>>

\* execute: else: self.result.status = STATUS.SUCCESS
SetSuccess(th) ==
    /\ frame[th].pc = "task_success"
    /\ heap' = [heap EXCEPT ![frame[th].task].result.status = SUCCESS]
    /\ Goto(th, "end_at")
    /\ UNCHANGED <<max_threads, path_result, tasks, executor, future, ret,
                   disk, clock, invoked, save_log, accepted, todo>>

\* variant of SetEndAt that saves before end_at is recorded
SetEndAt_Late(th) ==
    /\ frame[th].pc = "end_at"
    /\ Goto(th, "save")
    /\ UNCHANGED <<max_threads, path_result, tasks, heap, executor, future,
                   ret, disk, clock, invoked, save_log, accepted, todo>>

\* execute: self.result.end_at = now
SetEndAt(th) ==
    /\ frame[th].pc = "end_at"
    /\ \E now \in Now :
          /\ heap' = [heap EXCEPT ![frame[th].task].result.end_at = Some(now)]
          /\ clock' = now
    /\ Goto(th, "save")
    /\ UNCHANGED <<max_threads, path_result, tasks, executor, future, ret,
                   disk, invoked, save_log, accepted, todo>>

\* save_result(path="results/"): json.dump(self.result.to_dict(), file)
save_result(t, path) ==
    /\ disk' = WriteFile(disk, path, ResultFile(heap[t].task_id),
                         JsonDump(to_dict(heap[t].result)))
    /\ save_log' = [save_log EXCEPT ![t] =
                       Append(@, to_dict(heap[t].result))]

\* execute: self.save_result()
SaveResult(th) ==
    /\ frame[th].pc = "save"
    /\ save_result(frame[th].task, DefaultResultPath)
    /\ Goto(th, "return")
    /\ UNCHANGED <<max_threads, path_result, tasks, heap, executor, future,
                   ret, clock, invoked, accepted, todo>>

\* variant of Return after which the task is no longer in the registry
Return_Unregisters(th) ==
    /\ frame[th].pc = "return"
    /\ Finish(th, None, Some(to_dict(heap[frame[th].task].result)))
    /\ tasks' = [key \in {x \in DOMAIN tasks : tasks[x] # frame[th].task} |->
                    tasks[key]]
    /\ UNCHANGED <<max_threads, path_result, heap, executor, disk,
                   clock, invoked, save_log, accepted, todo>>
\* execute: return self.result.to_dict()
Return(th) ==
    /\ frame[th].pc = "return"
    /\ Finish(th, None, Some(to_dict(heap[frame[th].task].result)))
    /\ UNCHANGED <<max_threads, path_result, tasks, heap, executor, disk,
                   clock, invoked, save_log, accepted, todo>>

Execute(th) ==
    \/ ExecuteBegin(th)
    \/ SetStartAt(th)
    \/ StepRunning(th)
    \/ StepCall(th)
    \/ StepSuccess(th)
    \/ StepError(th)
    \/ SetExitMessage(th)
    \/ SetError(th)
    \/ SetSuccess(th)
    \/ SetEndAt(th)
    \/ SaveResult(th)
    \/ Return(th)

Next ==
    \/ AddTask
    \/ StartTask
    \/ LoadFromDisk
    \/ ExecuteCall
    \/ ShutdownBegin
    \/ ShutdownReturn
    \/ \E w \in WorkerIds : WorkerTake(w)
    \/ \E th \in Threads : Execute(th)

Spec == Init /\ [][Next]_vars

SpecTask == InitTask /\ [][Next]_vars

SpecDisk == InitDisk /\ [][Next]_vars

SpecNames == InitNames /\ [][Next]_vars

\* ------------------------------------------------------------ re-execute
\* the caller calls execute() itself on a task of the registry that the
\* pool has finished executing (nothing but is_executable is checked)
ExecuteAgain ==
    /\ frame[Main].pc = "idle"
    /\ \E key \in DOMAIN tasks :
          LET t == tasks[key] IN
          /\ heap[t].is_executable
          /\ t \in DOMAIN future
          /\ future[t].state = "FINISHED"
          /\ Len(save_log[t]) < MaxExecutes
          /\ frame' = [frame EXCEPT ![Main] =
                          [pc |-> "execute", task |-> t, k |-> 0,
                           exc |-> NoExc]]
    /\ UNCHANGED <<max_threads, path_result, tasks, heap, executor, future,
                   ret, disk, clock, invoked, save_log, accepted, todo>>

\* the classes of the tasks that are executed again: of no step, one step
\* and two steps
AgainClasses ==
    {c \in TaskClasses : c.body \in {<<>>, <<"step1">>, <<"step1", "step2">>}}

\* a caller that dispatches one task to a pool of one thread and may
\* execute it again itself
InitAgain ==
    /\ Constructed
    /\ max_threads = 1
    /\ path_result = DefaultResultPath
    /\ clock = MaxClock
    /\ todo \in [add : {<<c>> : c \in AgainClasses}, load : {0}]

NextAgain ==
    \/ AddTask
    \/ StartTask
    \/ ShutdownBegin
    \/ ShutdownReturn
    \/ \E w \in WorkerIds : WorkerTake(w)
    \/ \E th \in Threads : Execute(th)
    \/ ExecuteAgain

SpecAgain == InitAgain /\ [][NextAgain]_vars

\* -------------------------------------------------------------- artifacts
\* the files a task may hand over as artifacts, in the directory where its
\* steps leave them, and the directories artifacts are stored in
WorkDir == <<"work/">>
SourceNames == {<<"test", ".", "txt">>, <<"out", ".", "bin">>}
ArtifactDirs == {<<"artifacts/">>}

\* a path, as a directory and the name of a file in it: os.path.join,
\* os.path.basename
Path(dir, name) == [dir |-> dir, name |-> name]
Basename(path) == path.name

\* os.path.exists(path) in the file system d
Exists(d, path) == path.dir \in DOMAIN d /\ path.name \in DOMAIN d[path.dir]

\* os.makedirs(dir, exist_ok=True)
MakeDirs(d, dir) ==
    [x \in (DOMAIN d) \cup {dir} |-> IF x \in DOMAIN d THEN d[x] ELSE <<>>]

\* os.rename(src, dst) of an existing file src, in the file system d
Rename(d, src, dst) ==
    LET content == d[src.dir][src.name]
        removed == [d EXCEPT ![src.dir] =
                       [n \in (DOMAIN d[src.dir]) \ {src.name} |->
                           d[src.dir][n]]]
    IN WriteFile(removed, dst.dir, dst.name, content)

\* variant of AddArtifact that records the artifact before it moves the file
AddArtifact_RecordFirst ==
    /\ frame[Main].pc = "idle"
    /\ \E key \in DOMAIN tasks, name \in SourceNames,
          artifact_path \in ArtifactDirs :
          LET t == tasks[key]
              path == Path(WorkDir, name)
              made == MakeDirs(disk, artifact_path)
              new_path == Path(artifact_path,
                               heap[t].task_id \o <<"_">> \o Basename(path))
          IN /\ heap' = [heap EXCEPT ![t].result.artifacts =
                            DictSet(@, Basename(path), new_path)]
             /\ IF ~Exists(made, path)
                THEN /\ disk' = made
                     /\ ret' = [op |-> "add_artifact", ok |-> FALSE,
                                value |-> <<"FileNotFoundError">>,
                                args |-> <<t, path, artifact_path>>]
                ELSE /\ disk' = Rename(made, path, new_path)
                     /\ ret' = [op |-> "add_artifact", ok |-> TRUE,
                                value |-> None,
                                args |-> <<t, path, artifact_path>>]
    /\ UNCHANGED <<max_threads, path_result, tasks, executor, future, frame,
                   clock, invoked, save_log, accepted, todo>>
\* task.add_artifact(path, artifact_path), called on a task of the registry
AddArtifact ==
    /\ frame[Main].pc = "idle"
    /\ \E key \in DOMAIN tasks, name \in SourceNames,
          artifact_path \in ArtifactDirs :
          LET t == tasks[key]
              path == Path(WorkDir, name)
              made == MakeDirs(disk, artifact_path)
              new_path == Path(artifact_path,
                               heap[t].task_id \o <<"_">> \o Basename(path))
          IN IF ~Exists(made, path)
             THEN /\ disk' = made
                  /\ ret' = [op |-> "add_artifact", ok |-> FALSE,
                             value |-> <<"FileNotFoundError">>,
                             args |-> <<t, path, artifact_path>>]
                  /\ UNCHANGED heap
             ELSE /\ disk' = Rename(made, path, new_path)
                  /\ heap' = [heap EXCEPT ![t].result.artifacts =
                                 DictSet(@, Basename(path), new_path)]
                  /\ ret' = [op |-> "add_artifact", ok |-> TRUE,
                             value |-> None,
                             args |-> <<t, path, artifact_path>>]
    /\ UNCHANGED <<max_threads, path_result, tasks, executor, future, frame,
                   clock, invoked, save_log, accepted, todo>>

\* a caller that dispatches one task and hands files over as its artifacts,
\* some of which exist in the work directory
InitArtifact ==
    /\ \E S \in SUBSET SourceNames :
          ConstructedOver([dir \in {WorkDir} |->
                              [n \in S |-> [text |-> n[1]]]])
    /\ path_result = DefaultResultPath
    /\ clock = MaxClock
    /\ todo \in [add : {<<c>> : c \in PoolClasses}, load : {0}]

NextArtifact ==
    \/ AddTask
    \/ StartTask
    \/ ShutdownBegin
    \/ ShutdownReturn
    \/ \E w \in WorkerIds : WorkerTake(w)
    \/ \E th \in Threads : Execute(th)
    \/ AddArtifact

SpecArtifact == InitArtifact /\ [][NextArtifact]_vars

\* ---------------------------------------------------------------- queries
\* the folder of the task loggers and the log file of a task
LogDir == <<"logs/tasks">>
LogFile(task_id) == task_id \o <<".", "log">>

\* the lines of the file dir/name (file.readlines())
ReadLines(dir, name) == disk[dir][name].lines

\* the logger of a task appends a line to the log file of the task while
\* the task is being added or executed
LoggerWrites ==
    /\ \E t \in 1..Len(heap) :
          LET name == LogFile(heap[t].task_id)
              old == IF LogDir \in DOMAIN disk /\ name \in DOMAIN disk[LogDir]
                     THEN ReadLines(LogDir, name) ELSE <<>>
          IN /\ \E th \in Threads :
                    frame[th].task = t /\ frame[th].pc # "idle"
             /\ Len(old) < MaxLogLines
             /\ disk' = WriteFile(disk, LogDir, name,
                                  [lines |-> Append(old, "log\n")])
    /\ UNCHANGED <<max_threads, path_result, tasks, heap, executor, future,
                   frame, ret, clock, invoked, save_log, accepted, todo>>

\* d | {"logs": logs}
WithLogs(d, logs) ==
    [f \in (DOMAIN d) \cup {"logs"} |-> IF f = "logs" THEN logs ELSE d[f]]

\* an identity no task has
UnknownId == <<"task-", "none">>

\* variant of GetTaskStatus that reads the log file without asking whether a
\* folder was given
GetTaskStatus_AnyFolder ==
    /\ frame[Main].pc = "idle"
    /\ \E task_id \in (DOMAIN tasks) \cup {UnknownId},
          logs_folder_path \in {None, Some(LogDir)} :
          IF task_id \notin DOMAIN tasks
          THEN ret' = [op |-> "get_task_status", ok |-> FALSE,
                       value |-> <<"ValueError">>,
                       args |-> <<task_id, logs_folder_path>>]
          ELSE LET task == heap[tasks[task_id]]
                   found == /\ LogDir \in DOMAIN disk
                            /\ LogFile(task_id) \in DOMAIN disk[LogDir]
                   logs_task == IF found
                                THEN ReadLines(LogDir, LogFile(task_id))
                                ELSE <<>>
               IN ret' = [op |-> "get_task_status", ok |-> TRUE,
                          value |-> WithLogs(to_dict(task.result), logs_task),
                          args |-> <<task_id, logs_folder_path>>]
    /\ UNCHANGED <<max_threads, path_result, tasks, heap, executor, future,
                   frame, disk, clock, invoked, save_log, accepted, todo>>
\* get_task_status(task_id, logs_folder_path)
GetTaskStatus ==
    /\ frame[Main].pc = "idle"
    /\ \E task_id \in (DOMAIN tasks) \cup {UnknownId},
          logs_folder_path \in {None, Some(LogDir)} :
          IF task_id \notin DOMAIN tasks
          THEN ret' = [op |-> "get_task_status", ok |-> FALSE,
                       value |-> <<"ValueError">>,
                       args |-> <<task_id, logs_folder_path>>]
          ELSE LET task == heap[tasks[task_id]]
                   found == /\ logs_folder_path # None
                            /\ logs_folder_path[1] \in DOMAIN disk
                            /\ LogFile(task_id) \in
                                   DOMAIN disk[logs_folder_path[1]]
                   logs_task == IF found
                                THEN ReadLines(logs_folder_path[1],
                                               LogFile(task_id))
                                ELSE <<>>
               IN ret' = [op |-> "get_task_status", ok |-> TRUE,
                          value |-> WithLogs(to_dict(task.result), logs_task),
                          args |-> <<task_id, logs_folder_path>>]
    /\ UNCHANGED <<max_threads, path_result, tasks, heap, executor, future,
                   frame, disk, clock, invoked, save_log, accepted, todo>>

\* the entry of list_tasks for a task
Entry(task) ==
    [task_id |-> task.task_id,
     task_type |-> task.result.task_type,
     status |-> task.result.status,
     created_at |-> task.result.created_at,
     start_at |-> task.result.start_at,
     end_at |-> task.result.end_at]

\* the entry x put in its place in s, which is sorted by created_at, most
\* recent first: after the entries that are not older than x
Insert(s, x) ==
    LET k == Cardinality({j \in 1..Len(s) :
                             s[j].created_at[1] >= x.created_at[1]})
    IN SubSeq(s, 1, k) \o <<x>> \o SubSeq(s, k + 1, Len(s))

RECURSIVE Sorted(_)
RECURSIVE Sorted_Ascending(_)
\* variant of Sorted that puts the oldest entry first
Sorted_Ascending(s) ==
    IF s = <<>> THEN <<>>
    ELSE LET x == s[Len(s)]
             r == Sorted_Ascending(SubSeq(s, 1, Len(s) - 1))
             k == Cardinality({j \in 1..Len(r) :
                                  r[j].created_at[1] <= x.created_at[1]})
         IN SubSeq(r, 1, k) \o <<x>> \o SubSeq(r, k + 1, Len(r))
\* sorted(s, key=created_at, reverse=True): entries of the same created_at
\* keep the order they have in s
Sorted(s) ==
    IF s = <<>> THEN <<>>
    ELSE Insert(Sorted(SubSeq(s, 1, Len(s) - 1)), s[Len(s)])

\* list_tasks(task_type); self.tasks.items() goes through the registry in
\* the order of insertion, here any order; datetime.fromisoformat raises
\* TypeError on a created_at that is None
ListTasks ==
    /\ frame[Main].pc = "idle"
    /\ \E task_type \in {None} \cup {Some(c.name) : c \in TaskClasses},
          items \in Listings(tasks) :
          LET kept == SelectSeq(items, LAMBDA key :
                          \/ task_type = None
                          \/ heap[tasks[key]].result.task_type = task_type[1])
              entries == [j \in 1..Len(kept) |-> Entry(heap[tasks[kept[j]]])]
          IN IF \E j \in 1..Len(entries) : entries[j].created_at = None
             THEN ret' = [op |-> "list_tasks", ok |-> FALSE,
                          value |-> <<"TypeError">>,
                          args |-> <<task_type>>]
             ELSE ret' = [op |-> "list_tasks", ok |-> TRUE,
                          value |-> Sorted(entries),
                          args |-> <<task_type>>]
    /\ UNCHANGED <<max_threads, path_result, tasks, heap, executor, future,
                   frame, disk, clock, invoked, save_log, accepted, todo>>

\* the workloads of the callers that query: two tasks of different types,
\* on a pool of at most two threads
QueryWorkloads ==
    {w \in SeqsUpTo(PoolClasses, 2) : Len(w) = 2 /\ w[1] # w[2]}

\* a caller that dispatches two tasks and, at any moment, asks for the
\* status of a task or for the list of tasks
InitQuery ==
    /\ Constructed
    /\ max_threads <= 2
    /\ path_result = DefaultResultPath
    /\ clock = MaxClock
    /\ todo \in [add : QueryWorkloads, load : {MaxLoads}]

\* a query changes nothing but its own outcome, which no operation reads: a
\* run is followed up to its first query, made at any moment
QueryOps == {"get_task_status", "list_tasks"}
BeforeQuery == ret.op \notin QueryOps

NextQuery ==
    \/ BeforeQuery /\ AddTask
    \/ BeforeQuery /\ StartTask
    \/ BeforeQuery /\ LoadFromDisk
    \/ BeforeQuery /\ ExecuteCall
    \/ BeforeQuery /\ ShutdownBegin
    \/ BeforeQuery /\ ShutdownReturn
    \/ BeforeQuery /\ \E w \in WorkerIds : WorkerTake(w)
    \/ BeforeQuery /\ \E th \in Threads : Execute(th)
    \/ BeforeQuery /\ LoggerWrites
    \/ BeforeQuery /\ GetTaskStatus
    \/ BeforeQuery /\ ListTasks

SpecQuery == InitQuery /\ [][NextQuery]_vars

\* a caller that dispatches two tasks from time 0 on and, at any moment,
\* asks for the list of tasks
InitList ==
    /\ Constructed
    /\ max_threads <= 2
    /\ path_result = DefaultResultPath
    /\ clock = 0
    /\ todo \in [add : QueryWorkloads, load : {0}]

NextList ==
    \/ BeforeQuery /\ AddTask
    \/ BeforeQuery /\ StartTask
    \/ BeforeQuery /\ ShutdownBegin
    \/ BeforeQuery /\ ShutdownReturn
    \/ BeforeQuery /\ \E w \in WorkerIds : WorkerTake(w)
    \/ BeforeQuery /\ \E th \in Threads : Execute(th)
    \/ BeforeQuery /\ ListTasks

SpecList == InitList /\ [][NextList]_vars

\* ------------------------------------------------------------- fair pool
\* a caller that dispatches up to MaxTasks tasks and may shut the pool down
\* at any moment
InitFair ==
    /\ Constructed
    /\ path_result = DefaultResultPath
    /\ clock = MaxClock
    /\ todo \in [add : SeqsUpTo(PoolClasses, MaxTasks), load : {0}]

NextFair ==
    \/ AddTask
    \/ StartTask
    \/ ShutdownBegin
    \/ ShutdownReturn
    \/ \E w \in WorkerIds : WorkerTake(w)
    \/ \E th \in Threads : Execute(th)

\* a step of thread w of the pool: it takes a work item, or goes on with
\* the execute() it is in
WorkerStep(w) == w \in WorkerIds /\ (WorkerTake(w) \/ Execute(w))

\* every thread of the pool that can take a step eventually takes one (the
\* operating system schedules the threads, and a step body terminates)
PoolFairness == \A w \in 1..MaxThreads : WF_vars(WorkerStep(w))

SpecFair == InitFair /\ [][NextFair]_vars /\ PoolFairness

\* ======================================================================
\* Properties
\* ======================================================================
Objects == 1..Len(heap)

\* execute() of task t, run by the pool, has returned or raised
Finished(t) == t \in DOMAIN future /\ future[t].state = "FINISHED"

\* the result file of task t holds its result as it is now
Persisted(t) ==
    /\ DefaultResultPath \in DOMAIN disk
    /\ ResultFile(heap[t].task_id) \in DOMAIN disk[DefaultResultPath]
    /\ disk[DefaultResultPath][ResultFile(heap[t].task_id)] =
           JsonDump(to_dict(heap[t].result))

StepStatus(t, j) == heap[t].result.data[j].res.status
Terminal(t) == heap[t].result.status \in {SUCCESS, ERROR}

\* the last step body called by task t raised
LastRaised(t) == invoked[t] # <<>> /\ invoked[t][Len(invoked[t])].raised

\* C1: when step k of a task of n >= 2 steps raises, then after execute()
\* the steps before k are SUCCESS with the payload they returned, step k is
\* ERROR, the steps after k were never called and are PENDING, the task is
\* ERROR and exit_message is the str() of what step k raised.
C1_StepFailureAborts ==
    \A t \in Objects :
        (Finished(t) /\ Len(heap[t].steps) >= 2 /\ LastRaised(t)) =>
            LET k == Len(invoked[t])
                n == Len(heap[t].steps)
                data == heap[t].result.data
            IN /\ DictKeys(data) = heap[t].steps
               /\ \A j \in 1..k : invoked[t][j].step = heap[t].steps[j]
               /\ \A j \in 1..(k - 1) :
                     /\ ~invoked[t][j].raised
                     /\ data[j].res.status = SUCCESS
                     /\ data[j].res.data = invoked[t][j].payload
               /\ data[k].res.status = ERROR
               /\ \A j \in (k + 1)..n : data[j].res.status = PENDING
               /\ heap[t].result.status = ERROR
               /\ heap[t].result.exit_message = Some(Str(invoked[t][k].exc))

\* a task of three steps whose second step raised has finished
C1_Witness ==
    \E t \in Objects :
        /\ Finished(t)
        /\ Len(heap[t].steps) = 3
        /\ Len(invoked[t]) = 2
        /\ LastRaised(t)

\* C2: when all step bodies of a task of at least one step return normally,
\* then after execute() the task and all its steps are SUCCESS, exit_code
\* is 0, start_at and end_at are set and exit_message is None.
C2_AllStepsSucceed ==
    \A t \in Objects :
        (Finished(t) /\ Len(heap[t].steps) >= 1 /\ ~LastRaised(t)) =>
            /\ Len(invoked[t]) = Len(heap[t].steps)
            /\ heap[t].result.status = SUCCESS
            /\ \A j \in 1..Len(heap[t].result.data) : StepStatus(t, j) = SUCCESS
            /\ exit_code(heap[t].result) = 0
            /\ heap[t].result.start_at # None
            /\ heap[t].result.end_at # None
            /\ heap[t].result.exit_message = None

\* a task of three steps, none of which raised, has finished
C2_Witness ==
    \E t \in Objects :
        /\ Finished(t)
        /\ Len(heap[t].steps) = 3
        /\ Len(invoked[t]) = 3
        /\ ~LastRaised(t)

\* C3 (state part): after execute() a task without steps is ERROR with
\* exit_code 1 and exit_message "No steps to execute", has start_at and
\* end_at set and its result is in its result file.
C3_NoStepsState ==
    \A t \in Objects :
        (Finished(t) /\ heap[t].steps = <<>>) =>
            /\ heap[t].result.status = ERROR
            /\ exit_code(heap[t].result) = 1
            /\ heap[t].result.exit_message = Some("No steps to execute")
            /\ heap[t].result.start_at # None
            /\ heap[t].result.end_at # None
            /\ Len(save_log[t]) = 1
            /\ Persisted(t)

\* C3 (step part): an executable task without steps becomes ERROR only from
\* RUNNING, with start_at already set.
C3_NoStepsStep ==
    \A t \in Objects :
        (/\ heap[t].is_executable
         /\ heap[t].steps = <<>>
         /\ heap[t].result.status # ERROR
         /\ heap'[t].result.status = ERROR) =>
            /\ heap[t].result.status = RUNNING
            /\ heap[t].result.start_at # None

\* C3: a task with zero steps ends ERROR / exit_code 1 / "No steps to
\* execute", having passed through RUNNING, with start_at and end_at set
\* and its result persisted.
C3_NoSteps == [](C3_NoStepsState) /\ [][C3_NoStepsStep]_vars

\* a task without steps has finished
C3_Witness ==
    \E t \in Objects :
        Finished(t) /\ heap[t].is_executable /\ heap[t].steps = <<>>
\* C4: the steps are called, and listed in result.data, in the order in
\* which the class declares them.
C4_DeclarationOrder ==
    \A t \in Objects :
        heap[t].is_executable =>
            /\ DictKeys(heap[t].result.data) = heap[t].cls.body
            /\ \A j \in 1..Len(invoked[t]) :
                  invoked[t][j].step = heap[t].cls.body[j]

\* C5: an execute() that passed the check of is_executable writes the
\* result once, after the terminal status and end_at are recorded; a record
\* written has a terminal status and start_at and end_at set, and it is the
\* result that execute() returns.
C5_PersistOnceAtEnd ==
    \A t \in Objects :
        /\ Len(save_log[t]) <= 1
        /\ \A j \in 1..Len(save_log[t]) :
              /\ save_log[t][j].status \in {SUCCESS, ERROR}
              /\ save_log[t][j].start_at # None
              /\ save_log[t][j].end_at # None
        /\ (Finished(t) /\ heap[t].is_executable) =>
              /\ Len(save_log[t]) = 1
              /\ future[t].result = Some(save_log[t][1])
              /\ future[t].result = Some(to_dict(heap[t].result))
              /\ heap[t].result.end_at # None
              /\ Persisted(t)

\* execute() of a task whose second step raised has returned
C5_Witness ==
    \E t \in Objects :
        /\ Finished(t)
        /\ Len(save_log[t]) = 1
        /\ Len(invoked[t]) = 2
        /\ LastRaised(t)

\* C6: a failure of a step body, or the absence of steps, does not leave
\* execute(): the Future finishes without exception with the result
\* record, the failure is in the step's status and in exit_message, and
\* every thread of the pool is idle or running a task.
C6_FailureContained ==
    /\ \A t \in DOMAIN future :
          future[t].state = "FINISHED" =>
             /\ future[t].exception = None
             /\ future[t].result = Some(to_dict(heap[t].result))
             /\ heap[t].steps = <<>> =>
                   /\ heap[t].result.status = ERROR
                   /\ heap[t].result.exit_message = Some(Str(NoSteps))
             /\ LastRaised(t) =>
                   /\ heap[t].result.status = ERROR
                   /\ StepStatus(t, Len(invoked[t])) = ERROR
                   /\ heap[t].result.exit_message =
                         Some(Str(invoked[t][Len(invoked[t])].exc))
    /\ \A w \in WorkerIds :
          \/ frame[w].pc = "idle"
          \/ /\ frame[w].task \in DOMAIN future
             /\ future[frame[w].task].state = RUNNING

\* on a pool of one thread, a task whose step raised has finished and the
\* task submitted after it has been run by the same thread
C6_Witness ==
    /\ max_threads = 1
    /\ \E t, u \in DOMAIN future :
          /\ t < u
          /\ Finished(t) /\ LastRaised(t)
          /\ Finished(u)

\* C7 (state part): no step of execute() beyond the check is taken on a
\* task that is not executable.
C7_NotExecutableState ==
    \A th \in Threads :
        frame[th].pc \notin {"idle", "start_task", "shutdown_wait", "execute"}
            => heap[frame[th].task].is_executable

\* C7 (step part): execute() on a task that is not executable raises
\* ValueError at once and changes nothing.
C7_NotExecutableStep ==
    \A th \in Threads :
        (/\ frame[th].pc = "execute"
         /\ ~heap[frame[th].task].is_executable
         /\ frame'[th] # frame[th]) =>
            /\ frame'[th] = Idle
            /\ UNCHANGED <<heap, disk, invoked, save_log, tasks, clock>>
            /\ IF th = Main
               THEN ret' = [op |-> "execute", ok |-> FALSE,
                            value |-> Some(NotExecutable)]
               ELSE future'[frame[th].task].exception = Some(NotExecutable)

\* C7: execute() on a task with is_executable false fails immediately with
\* ValueError, without any effect on the task, its steps or the files.
C7_NotExecutable == [](C7_NotExecutableState) /\ [][C7_NotExecutableStep]_vars

\* execute() was called on a rebuilt task that has step results, and raised
C7_Witness ==
    /\ ret = [op |-> "execute", ok |-> FALSE, value |-> Some(NotExecutable)]
    /\ \E t \in Objects :
          ~heap[t].is_executable /\ Len(heap[t].result.data) >= 2

\* C8: add_task does not wait for the task to run; the identity it returns
\* starts with "task-" and is in the registry, with its task, when it
\* returns (it fails only once shutdown has begun); every task submitted
\* to the pool is registered.
C8_RegisteredBeforeSubmitted ==
    /\ (ret.op = "add_task" /\ ret.ok) =>
          /\ ret.value[1] = "task-"
          /\ ret.value \in DOMAIN tasks
          /\ heap[tasks[ret.value]].task_id = ret.value
    /\ (ret.op = "add_task" /\ ~ret.ok) =>
          /\ executor.shutdown
          /\ ret.value = <<"RuntimeError">>
    /\ \A t \in DOMAIN future : heap[t].task_id \in DOMAIN tasks
    /\ frame[Main].pc = "start_task" => ENABLED StartTask

\* add_task has returned the identity of a task that is still queued
C8_Witness ==
    /\ ret.op = "add_task" /\ ret.ok
    /\ heap[tasks[ret.value]].result.status = PENDING
    /\ \E j \in 1..Len(executor.queue) : executor.queue[j] = tasks[ret.value]

\* the tasks the pool is executing
Running == {t \in DOMAIN future : future[t].state = RUNNING}
Queued == {executor.queue[j] : j \in 1..Len(executor.queue)}

\* C9: at most max_threads tasks are being executed; the other submitted
\* tasks that have not run are in the queue, with status PENDING.
C9_AtMostNRunning ==
    /\ Cardinality(Running) <= max_threads
    /\ \A t \in DOMAIN future :
          /\ heap[t].result.status = RUNNING => t \in Running
          /\ future[t].state = PENDING => t \in Queued
    /\ \A t \in Queued :
          /\ future[t].state = PENDING
          /\ heap[t].result.status = PENDING
          /\ heap[t].result.start_at = None

\* more tasks than threads were added: max_threads are executed, one waits
C9_Witness ==
    /\ Cardinality(accepted) > max_threads
    /\ Cardinality(Running) = max_threads
    /\ Queued # {}

\* shutdown() has returned
ShutdownReturned == executor.shutdown /\ frame[Main].pc # "shutdown_wait"

\* C10: when shutdown() has returned, every task add_task accepted has
\* finished, with status SUCCESS or ERROR, end_at set and its result in
\* its result file; nothing is left in the queue.
C10_ShutdownWaits ==
    ShutdownReturned =>
        /\ executor.queue = <<>>
        /\ \A t \in accepted :
              /\ Finished(t)
              /\ Terminal(t)
              /\ heap[t].result.end_at # None
              /\ Persisted(t)

\* shutdown() has returned after more tasks than threads were accepted
C10_Witness ==
    /\ ret.op = "shutdown"
    /\ Cardinality(accepted) > max_threads

\* ------------------------------------------------------------------ C11
\* the entries of the result directory that hold a well-formed record
WellFormed(dir) ==
    {name \in DOMAIN disk[dir] :
        load_from_file(name, disk[dir][name]).exc = None}

\* C11: when load_from_disk has returned over an existing result directory,
\* it has not raised, whatever malformed entries the directory holds (not
\* JSON, a missing field, an unknown status), and every well-formed entry
\* of the directory is registered under its key.
C11_MalformedSkipped ==
    (ret.op = "load_from_disk" /\ path_result \in DOMAIN disk)
        => /\ ret.ok
           /\ \A name \in WellFormed(path_result) :
                  SplitFirst(name) \in DOMAIN tasks
\* ------------------------------------------------------------------ C12
\* save_result of task object x followed by load_from_file of the file written
RoundTrip(x) ==
    load_from_file(ResultFile(x.task_id), JsonDump(to_dict(x.result)))

\* the result r with every step payload replaced by its JSON value
JsonImage(r) ==
    [r EXCEPT !.data = [j \in 1..Len(r.data) |->
                           [r.data[j] EXCEPT !.res.data = JsonPayload(@)]]]

\* the objects load_from_disk made from the file that task t saved
CopiesOf(t) ==
    {u \in Objects : /\ ~heap[u].is_executable
                     /\ heap[u].task_id = heap[t].task_id
                     /\ save_log[t] # <<>>}

\* what load_from_file returns, r, for the saved result of x is a task that
\* is not executable, has the identity of x and the result expected
LoadsAs(r, x, expected) ==
    /\ r.exc = None
    /\ ~r.task.is_executable
    /\ r.task.task_id = x.task_id
    /\ r.task.result = expected
    /\ exit_code(r.task.result) = exit_code(x.result)
    /\ duration(r.task.result) = duration(x.result)

ExitCodeOf(rec) ==
    /\ rec.exit_code \in {0, 1}
    /\ rec.exit_code = 1 <=>
           \/ Len(rec.data) = 0
           \/ \A j \in 1..Len(rec.data) : rec.data[j].res.status = ERROR

\* C13: the exit_code of every task result, as it is now, as it was saved
\* and as execute() returned it, is 1 iff the result has no step results or
\* every step result is ERROR, and 0 otherwise.
C13_ExitCode ==
    \A t \in Objects :
        /\ ExitCodeOf(to_dict(heap[t].result))
        /\ \A j \in 1..Len(save_log[t]) : ExitCodeOf(save_log[t][j])
        /\ (Finished(t) /\ future[t].result # None) =>
               ExitCodeOf(future[t].result[1])

\* a task has finished in ERROR with exit_code 0: one of its steps succeeded
\* and one failed
C13_Witness ==
    \E t \in Objects :
        /\ Finished(t)
        /\ heap[t].result.status = ERROR
        /\ \E j \in 1..Len(heap[t].result.data) : StepStatus(t, j) = ERROR
        /\ \E j \in 1..Len(heap[t].result.data) : StepStatus(t, j) = SUCCESS
        /\ future[t].result[1].exit_code = 0
\* ------------------------------------------------------------------ C14
\* the step is a call of the query op
Called(op) == ret' # ret /\ ret'.op = op

\* the lines of the log file of task_id in the folder dir, if there is one
LogLines(dir, task_id) ==
    IF /\ dir # None
       /\ dir[1] \in DOMAIN disk
       /\ LogFile(task_id) \in DOMAIN disk[dir[1]]
    THEN disk[dir[1]][LogFile(task_id)].lines
    ELSE <<>>

\* C14: get_task_status on an identity absent from the registry raises
\* ValueError and changes nothing; on a registered identity it returns the
\* serialized result the task has at that moment plus a field logs, which
\* holds the lines of <logs_dir>/<identity>.log when that file exists and is
\* empty when no folder is given or the folder has no such file.
C14_GetTaskStatus ==
    [][Called("get_task_status") =>
          LET task_id == ret'.args[1]
              logs_dir == ret'.args[2]
          IN /\ UNCHANGED <<max_threads, path_result, tasks, heap, executor,
                            future, frame, disk, clock, invoked, save_log,
                            accepted, todo>>
             /\ IF task_id \notin DOMAIN tasks
                THEN /\ ~ret'.ok
                     /\ ret'.value = <<"ValueError">>
                ELSE LET now == to_dict(heap[tasks[task_id]].result) IN
                     /\ ret'.ok
                     /\ DOMAIN ret'.value = (DOMAIN now) \cup {"logs"}
                     /\ \A f \in DOMAIN now : ret'.value[f] = now[f]
                     /\ ret'.value.logs = LogLines(logs_dir, task_id)]_vars

\* the status of a running task has been returned with the line of its log
\* file
C14_Witness ==
    /\ ret.op = "get_task_status"
    /\ ret.ok
    /\ ret.value.status = RUNNING
    /\ ret.value.logs = <<"log\n">>
    /\ ret.args[2] = Some(LogDir)
\* ------------------------------------------------------------------ C15
\* the keys of the registered tasks whose type passes the filter
Matching(task_type) ==
    {key \in DOMAIN tasks :
        \/ task_type = None
        \/ heap[tasks[key]].result.task_type = task_type[1]}

\* C15: list_tasks(task_type) returns one entry for each registered task
\* whose task_type is the filter (for each registered task when the filter
\* is None) and no other entry, the entries being in the order of
\* created_at, most recent first; it changes nothing.
C15_ListTasks ==
    [][Called("list_tasks") =>
          LET task_type == ret'.args[1]
              out == ret'.value
          IN /\ UNCHANGED <<max_threads, path_result, tasks, heap, executor,
                            future, frame, disk, clock, invoked, save_log,
                            accepted, todo>>
             /\ ret'.ok
             /\ Len(out) = Cardinality(Matching(task_type))
             /\ \A key \in Matching(task_type) :
                   \E j \in 1..Len(out) :
                      /\ out[j] = Entry(heap[tasks[key]])
                      /\ \A i \in 1..Len(out) :
                            out[i].task_id = out[j].task_id => i = j
             /\ \A j \in 1..Len(out) :
                   /\ task_type # None => out[j].task_type = task_type[1]
                   /\ \E key \in Matching(task_type) :
                         out[j] = Entry(heap[tasks[key]])
             /\ \A i, j \in 1..Len(out) :
                   i < j => out[i].created_at[1] >= out[j].created_at[1]]_vars

\* the two tasks have been listed, the one added last, at a later time,
\* first
C15_Witness ==
    /\ ret.op = "list_tasks"
    /\ ret.ok
    /\ ret.args[1] = None
    /\ Len(ret.value) = 2
    /\ ret.value[1].task_id = heap[2].task_id
    /\ ret.value[2].task_id = heap[1].task_id
    /\ ret.value[1].created_at[1] > ret.value[2].created_at[1]
\* ------------------------------------------------------------------ C16
\* C16: add_artifact on a source path that does not exist raises
\* FileNotFoundError, leaves the result of the task as it was and puts no
\* file at the path the artifact would be stored at; on an existing source
\* it moves the file to <artifact_dir>/<task_id>_<basename> and records
\* basename -> that path in artifacts, the other entries being kept.
C16_AddArtifact ==
    [][Called("add_artifact") =>
          LET t == ret'.args[1]
              path == ret'.args[2]
              stored == Path(ret'.args[3],
                             heap[t].task_id \o <<"_">> \o Basename(path))
              old == heap[t].result.artifacts
              new == heap'[t].result.artifacts
          IN /\ \A u \in Objects \ {t} : heap'[u] = heap[u]
             /\ IF ~Exists(disk, path)
                THEN /\ ~ret'.ok
                     /\ ret'.value = <<"FileNotFoundError">>
                     /\ heap' = heap
                     /\ Exists(disk', stored) <=> Exists(disk, stored)
                     /\ \A d \in DOMAIN disk : disk'[d] = disk[d]
                ELSE /\ ret'.ok
                     /\ ~Exists(disk', path)
                     /\ Exists(disk', stored)
                     /\ disk'[stored.dir][stored.name] =
                            disk[path.dir][path.name]
                     /\ DOMAIN new = (DOMAIN old) \cup {Basename(path)}
                     /\ new[Basename(path)] = stored
                     /\ \A b \in (DOMAIN old) \ {Basename(path)} :
                           new[b] = old[b]
                     /\ heap'[t] = [heap[t] EXCEPT !.result.artifacts = new]
         ]_vars

\* a task has one artifact, moved to its stored path, and a call for
\* another file, which does not exist, has failed: no entry and no stored
\* file for it
C16_Witness ==
    /\ ret.op = "add_artifact"
    /\ ~ret.ok
    /\ LET t == ret.args[1]
           stored == Path(ret.args[3],
                          heap[t].task_id \o <<"_">> \o Basename(ret.args[2]))
       IN /\ ~Exists(disk, stored)
          /\ Basename(ret.args[2]) \notin DOMAIN heap[t].result.artifacts
          /\ \E b \in DOMAIN heap[t].result.artifacts :
                Exists(disk, heap[t].result.artifacts[b])
\* ------------------------------------------------------------------ C17
\* C17: during execute() of a task with steps s1..sn in discovery order, at
\* most one step is RUNNING; when step si is RUNNING, SUCCESS or ERROR, the
\* steps before it are SUCCESS and, unless si is SUCCESS, the steps after
\* it are PENDING; the body of s(i+1) is called only when si is SUCCESS.
C17_StepsNeverOverlap ==
    \A t \in Objects :
        LET n == Len(heap[t].result.data) IN
        /\ heap[t].is_executable => DictKeys(heap[t].result.data) = heap[t].steps
        /\ Cardinality({j \in 1..n : StepStatus(t, j) = RUNNING}) <= 1
        /\ \A i \in 1..n :
              StepStatus(t, i) # PENDING =>
                  /\ \A j \in 1..(i - 1) : StepStatus(t, j) = SUCCESS
                  /\ StepStatus(t, i) # SUCCESS =>
                         \A j \in (i + 1)..n : StepStatus(t, j) = PENDING
        /\ \A i \in 1..Len(invoked[t]) :
              /\ invoked[t][i].step = heap[t].steps[i]
              /\ \A j \in 1..(i - 1) : StepStatus(t, j) = SUCCESS

\* the second of three steps is RUNNING, after the first has succeeded and
\* before the third has started
C17_Witness ==
    \E t \in Objects :
        /\ Len(heap[t].steps) = 3
        /\ StepStatus(t, 1) = SUCCESS
        /\ StepStatus(t, 2) = RUNNING
        /\ StepStatus(t, 3) = PENDING
        /\ \E th \in Threads : frame[th].task = t /\ frame[th].pc = "step_call"
\* ------------------------------------------------------------------ C18
Rank(status) == IF status = PENDING THEN 0
                ELSE IF status = RUNNING THEN 1 ELSE 2

\* the status of step j of task t advances or stays in this step
Advances(t, j) ==
    LET old == heap[t].result.data[j].res.status
        new == heap'[t].result.data[j].res.status
    IN /\ Rank(new) >= Rank(old)
       /\ Rank(old) = 2 => new = old

\* the steps of a task that is constructed in this step are PENDING
BeginPending ==
    \A t \in (1..Len(heap')) \ Objects :
        heap'[t].is_executable =>
            \A j \in 1..Len(heap'[t].result.data) :
                heap'[t].result.data[j].res.status = PENDING

\* C18 as stated: the status of a step begins PENDING and only advances
\* PENDING -> RUNNING -> SUCCESS or ERROR; it never goes back, whatever
\* the operations on the task, a second execute() on a terminal task
\* included.
C18_StatusNeverReverts ==
    [][/\ BeginPending
       /\ \A t \in Objects : \A j \in 1..Len(heap[t].result.data) :
             Advances(t, j)]_vars

\* C18 amended: the status of a step begins PENDING and only advances as
\* long as execute() has not been called again on the task; the only step
\* in which a status goes back is the one in which a later execute() sets
\* a step that is SUCCESS or ERROR to RUNNING again.
C18_RevertsOnlyOnReexecute ==
    [][/\ BeginPending
       /\ \A t \in Objects : \A j \in 1..Len(heap[t].result.data) :
             \/ Advances(t, j)
             \/ /\ save_log[t] # <<>>
                /\ StepStatus(t, j) \in {SUCCESS, ERROR}
                /\ heap'[t].result.data[j].res.status = RUNNING
                /\ \E th \in Threads :
                      /\ frame[th].task = t
                      /\ frame[th].pc = "step_running"]_vars

\* execute() has run twice on a task with a step
C18_Witness ==
    \E t \in Objects :
        /\ Len(save_log[t]) = 2
        /\ Len(heap[t].result.data) >= 1
        /\ Len(invoked[t]) = 2
\* ------------------------------------------------------------------ C19
\* the threads of the pool that are executing task t
Executing(t) ==
    {w \in WorkerIds : frame[w].pc # "idle" /\ frame[w].task = t}

\* execute() is invoked once on each task add_task dispatched: the task is
\* in the queue once until a thread takes it, one thread executes it, and
\* it is never taken again
ExecutedOnce ==
    \A t \in accepted :
        /\ Len(save_log[t]) <= 1
        /\ Cardinality(Executing(t)) <= 1
        /\ Cardinality({j \in 1..Len(executor.queue) :
                           executor.queue[j] = t}) <= 1
        /\ future[t].state = PENDING =>
               /\ t \in Queued /\ Executing(t) = {}
               /\ heap[t].result.status = PENDING
               /\ save_log[t] = <<>>
        /\ future[t].state = RUNNING =>
               /\ t \notin Queued /\ Executing(t) # {}
        /\ Finished(t) =>
               /\ t \notin Queued /\ Executing(t) = {}
               /\ Terminal(t)
               /\ Len(save_log[t]) = 1

\* the status of task t stays or follows PENDING -> RUNNING -> SUCCESS or
\* ERROR in this step
StatusFollows(t) ==
    LET old == heap[t].result.status
        new == heap'[t].result.status
    IN \/ new = old
       \/ old = PENDING /\ new = RUNNING
       \/ old = RUNNING /\ new \in {SUCCESS, ERROR}

\* C19 as stated: execute() is invoked once on every task dispatched by
\* add_task; the status of the task follows PENDING -> RUNNING -> SUCCESS
\* or ERROR, and once it is SUCCESS or ERROR the status, exit_message,
\* end_at and step results of the task never change again.
C19_TerminalFrozen ==
    /\ []ExecutedOnce
    /\ [][\A t \in accepted :
             /\ StatusFollows(t)
             /\ Terminal(t) =>
                   /\ heap'[t].result.status = heap[t].result.status
                   /\ heap'[t].result.exit_message = heap[t].result.exit_message
                   /\ heap'[t].result.end_at = heap[t].result.end_at
                   /\ heap'[t].result.data = heap[t].result.data]_vars

\* C19 amended: execute() is invoked once on every task dispatched by
\* add_task; the status of the task follows PENDING -> RUNNING -> SUCCESS
\* or ERROR, and once it is SUCCESS or ERROR the status, exit_message and
\* step results never change again; end_at is recorded after the terminal
\* status, once, and nothing of the result changes once execute() has
\* returned.
C19_TerminalThenEndAt ==
    /\ []ExecutedOnce
    /\ [][\A t \in accepted :
             /\ StatusFollows(t)
             /\ Terminal(t) =>
                   /\ heap'[t].result.status = heap[t].result.status
                   /\ heap'[t].result.exit_message = heap[t].result.exit_message
                   /\ heap'[t].result.data = heap[t].result.data
                   /\ \/ heap'[t].result.end_at = heap[t].result.end_at
                      \/ /\ heap[t].result.end_at = None
                         /\ heap'[t].result.end_at # None
                         /\ ~Finished(t)
                         /\ save_log[t] = <<>>
             /\ Finished(t) => heap'[t] = heap[t]]_vars

\* the status of a task that has finished is asked for while the other
\* task, added as well, has not finished
C19_Witness ==
    /\ ret.op = "get_task_status"
    /\ ret.ok
    /\ \E t \in accepted :
          /\ Finished(t)
          /\ ret.args[1] = heap[t].task_id
          /\ ret.value.status = heap[t].result.status
          /\ ret.value.end_at = heap[t].result.end_at
          /\ \E u \in accepted : ~Finished(u)
\* ------------------------------------------------------------------ C20
\* the step is the part of add_task that registers the task it constructed:
\* one entry more, the others as they were
AddTaskRegisters ==
    /\ frame'[Main].pc = "start_task"
    /\ todo'.add = Tail(todo.add)
    /\ Len(heap') = Len(heap) + 1
    /\ DOMAIN tasks' = (DOMAIN tasks) \cup {heap'[Len(heap')].task_id}
    /\ tasks'[heap'[Len(heap')].task_id] = Len(heap')
    /\ \A key \in DOMAIN tasks :
          key # heap'[Len(heap')].task_id => tasks'[key] = tasks[key]

\* the step is a call of load_from_disk: entries are added or replaced by
\* tasks it has just loaded, none is removed
LoadRegisters ==
    /\ ret'.op = "load_from_disk"
    /\ todo'.load = todo.load - 1
    /\ DOMAIN tasks \subseteq DOMAIN tasks'
    /\ \A key \in DOMAIN tasks' :
          \/ key \in DOMAIN tasks /\ tasks'[key] = tasks[key]
          \/ tasks'[key] > Len(heap) /\ ~heap'[tasks'[key]].is_executable

\* C20: the registry is changed by add_task and load_from_disk only, on
\* the caller's thread: no step of a thread of the pool (the execution of a
\* task and its completion), of get_task_status, of list_tasks or of
\* shutdown adds, removes or replaces an entry.
C20_RegistryFrame ==
    [][tasks' # tasks =>
          /\ frame[Main].pc = "idle"
          /\ \A w \in WorkerIds : frame'[w] = frame[w]
          /\ AddTaskRegisters \/ LoadRegisters]_vars

\* both tasks have been executed by the pool, shutdown has returned and the
\* list of tasks has been asked for: the registry holds the two tasks
C20_Witness ==
    /\ ret.op = "list_tasks"
    /\ executor.shutdown
    /\ Cardinality(accepted) = 2
    /\ \A t \in accepted :
          Finished(t) /\ heap[t].task_id \in DOMAIN tasks
\* ------------------------------------------------------------------ C21
\* the tasks that were rebuilt from a result file
Loaded == {u \in Objects : ~heap[u].is_executable}

\* the step is a call of load_from_disk
LoadStep == todo'.load # todo.load

\* C21 (state part): a task rebuilt by load_from_disk is not executable and
\* is never given to the pool: it has no Future, is not queued, and no
\* thread of the pool works on it.
C21_LoadedNotSubmitted ==
    \A u \in Loaded :
        /\ u \notin DOMAIN future
        /\ u \notin Queued
        /\ u \notin accepted
        /\ \A w \in WorkerIds : frame[w].pc # "idle" => frame[w].task # u

\* C21 (step part): load_from_disk leaves the pool as it is and registers
\* tasks with is_executable false only; no step at all (of the manager, of
\* the pool, of a query) changes a rebuilt task.
C21_LoadedFrozen ==
    /\ LoadStep =>
          /\ UNCHANGED <<executor, future, frame, accepted>>
          /\ \A u \in (Len(heap) + 1)..Len(heap') : ~heap'[u].is_executable
          /\ \A key \in DOMAIN tasks' :
                (key \notin DOMAIN tasks \/ tasks'[key] # tasks[key]) =>
                    ~heap'[tasks'[key]].is_executable
    /\ \A u \in Loaded : heap'[u] = heap[u]

\* C21: tasks reconstructed by load_from_disk are read-only history:
\* load_from_disk submits nothing to the pool, every task it registers has
\* is_executable false, and such a task (status, timestamps, step results,
\* artifacts) stays exactly as it was restored under every later manager
\* operation and every concurrent execution of other tasks.
C21_LoadedReadOnly == [](C21_LoadedNotSubmitted) /\ [][C21_LoadedFrozen]_vars

\* a task was rebuilt from the result file of a finished task, another
\* task is in the middle of a step on a pool thread, and a query was made
C21_Witness ==
    /\ ret.op \in QueryOps
    /\ \E u \in Loaded :
          /\ Terminal(u) /\ heap[u].result.end_at # None
          /\ \E key \in DOMAIN tasks : tasks[key] = u
          /\ \E w \in WorkerIds :
                frame[w].pc = "step_call" /\ frame[w].task # u
\* ------------------------------------------------------------------ C22
\* C22: after shutdown() has begun, add_task is not accepted: it fails,
\* starts no execution and leaves the registry as it was, so that every
\* executable task of the registry has been handed to the pool (no task
\* stays PENDING forever).
C22_RejectedNotRegistered ==
    frame[Main].pc # "start_task" =>
        /\ \A key \in DOMAIN tasks :
              heap[tasks[key]].is_executable => tasks[key] \in accepted
        /\ (ret.op = "add_task" /\ ~ret.ok) =>
              /\ executor.shutdown
              /\ \A t \in Objects :
                    (heap[t].is_executable /\ t \notin accepted) =>
                        /\ t \notin DOMAIN future
                        /\ t \notin Queued
                        /\ \A key \in DOMAIN tasks : tasks[key] # t
\* ------------------------------------------------------------------ C23
\* task t has ended and its result file holds its final result
Completed(t) ==
    /\ t \in Objects
    /\ Finished(t)
    /\ Terminal(t)
    /\ heap[t].result.end_at # None
    /\ Persisted(t)

\* C23: if every step body terminates and the threads of the pool are
\* scheduled fairly, every task for which add_task returned an identity
\* eventually is SUCCESS or ERROR with its result persisted, however many
\* tasks are added relative to the size of the pool and whether or not
\* shutdown() is called; a failing task never keeps a queued one from
\* running.
C23_EveryAcceptedTaskCompletes ==
    \A t \in 1..MaxTasks : (t \in accepted) ~> Completed(t)

\* more tasks than threads were accepted, one of them failed, shutdown has
\* returned and all of them are completed
C23_Witness ==
    /\ ShutdownReturned
    /\ Cardinality(accepted) > max_threads
    /\ \A t \in accepted : Completed(t)
    /\ \E t, u \in accepted :
          /\ t < u
          /\ heap[t].result.status = ERROR
          /\ heap[u].result.status = SUCCESS
\* ------------------------------------------------------------------ C24
\* the tasks that the step has just rebuilt
JustLoaded == (Len(heap) + 1)..Len(heap')

\* C24: every entry key -> task of the registry satisfies
\* key = task.task_id, whatever the names of the files in the result
\* directory (so that every task_id list_tasks returns is one that
\* get_task_status accepts), and two result files never map to the same
\* key: every task a successful load_from_disk rebuilt has its own entry.
C24_KeysAreIdentities ==
    /\ [](\A key \in DOMAIN tasks : heap[tasks[key]].task_id = key)
    /\ [][(LoadStep /\ ret'.ok) =>
             \A u \in JustLoaded :
                 \E key \in DOMAIN tasks' : tasks'[key] = u]_vars
\* ------------------------------------------------------------------ C25
\* C25: in every reachable state of a task executed once, the states in
\* the middle of execute() that a concurrent query can observe included, a
\* task whose status is SUCCESS has at least one step and all its steps are
\* SUCCESS, and a task whose status is ERROR has an exit_message.
C25_StatusSnapshot ==
    \A t \in Objects :
        LET result == heap[t].result IN
        /\ result.status = SUCCESS =>
              /\ Len(result.data) >= 1
              /\ \A j \in 1..Len(result.data) : StepStatus(t, j) = SUCCESS
        /\ result.status = ERROR => result.exit_message # None

\* a thread is between the assignment of the status ERROR and the one of
\* end_at, in a task whose second step failed
C25_Witness ==
    \E th \in Threads :
        /\ frame[th].pc = "end_at"
        /\ LET t == frame[th].task IN
           /\ heap[t].result.status = ERROR
           /\ heap[t].result.end_at = None
           /\ Len(heap[t].steps) >= 2
           /\ StepStatus(t, 1) = SUCCESS
           /\ StepStatus(t, 2) = ERROR
\* ------------------------------------------------------------------ C26
\* the steps of task t whose status is ERROR
FailedSteps(t) ==
    {j \in 1..Len(heap[t].result.data) : StepStatus(t, j) = ERROR}

\* the exit code in the dict that execute() of task t returned
ReturnedExitCode(t) == future[t].result[1].exit_code

\* C26: within one execute() at most one step of a task is ever ERROR;
\* so, once execute() has returned, the exit code is 1 only for a task
\* without steps or a task whose single step failed, and a task of two or
\* more steps has exit code 0 even when its status is ERROR.
C26_ExitCodeOneStep ==
    \A t \in Objects :
        /\ Cardinality(FailedSteps(t)) <= 1
        /\ (Finished(t) /\ heap[t].is_executable) =>
              /\ ReturnedExitCode(t) \in {0, 1}
              /\ ReturnedExitCode(t) = exit_code(heap[t].result)
              /\ ReturnedExitCode(t) = 1 =>
                    \/ Len(heap[t].steps) = 0
                    \/ Len(heap[t].steps) = 1 /\ FailedSteps(t) = {1}
              /\ Len(heap[t].steps) >= 2 => ReturnedExitCode(t) = 0

\* execute() has returned for a task of several steps whose second step
\* failed: the task is ERROR and its exit code is 0
C26_Witness ==
    \E t \in Objects :
        /\ Finished(t)
        /\ Len(heap[t].steps) >= 2
        /\ heap[t].result.status = ERROR
        /\ FailedSteps(t) = {2}
        /\ ReturnedExitCode(t) = 0
\* ------------------------------------------------------------------ C27
\* the file <identity>.json of task t is in directory dir and holds the
\* result of t as it is now
PersistedUnder(dir, t) ==
    /\ dir \in DOMAIN disk
    /\ ResultFile(heap[t].task_id) \in DOMAIN disk[dir]
    /\ disk[dir][ResultFile(heap[t].task_id)] =
           JsonDump(to_dict(heap[t].result))

\* C27: whatever result directory path_result the manager was constructed
\* with, the result of every task it dispatched is persisted as
\* <identity>.json under path_result, the directory load_from_disk scans
\* (which is what lets a later load_from_disk recover the finished tasks).
C27_PersistedUnderPathResult ==
    \A t \in Objects :
        (Finished(t) /\ heap[t].is_executable) =>
            PersistedUnder(path_result, t)
====
